---- MODULE Spec2Model ----
(***************************************************************************)
(* Model of natemago/processagent: the command-line tokenizer, the         *)
(* per-request process wrapper and the admission-controlled local process  *)
(* agent (processagent.go).                                                *)
(*                                                                         *)
(* Texts (payloads, command templates, error messages) are sequences of    *)
(* one-character strings.  Every ProcessCommand call creates a fresh       *)
(* wrapper, so a request, its wrapper and the pid of its process share one *)
(* identifier in 1..MaxReq (pids are taken to be distinct).                *)
(***************************************************************************)
EXTENDS Integers, Sequences, FiniteSets, TLC

\* ------------------------------------------------------------------ bounds
\* Number of ProcessCommand calls (requests) in a behaviour.
MaxReq == 2
\* Largest value of maxParallel the agent is constructed with (0 = unbounded).
MaxBound == 1

Reqs == 1..MaxReq

\* Longest command line given to Tokenize on its own.
MaxLen == 4

\* Most stages registered on one input port.
MaxStages == 3

\* Most exec calls and most stopProcess calls made on one process wrapper.
MaxCalls == 2
MaxStops == 2
Calls == 1..MaxCalls
Stops == 1..MaxStops

\* ------------------------------------------------------------------- texts
NoText == << >>

NoExecMsg == <<"n","o"," ","e","x","e","c"," ","s","p","e","c","i","f","i","e","d">>
UnclosedMsg == <<"u","n","c","l","o","s","e","d"," ","s","t","r","i","n","g"," ","g","r","o","u","p">>
MaxWorkersMsg == <<"m","a","x"," ","n","u","m","b","e","r"," ","o","f"," ","w","o","r","k","e","r","s"," ","r","e","a","c","h","e","d">>
AlreadyRunningMsg == <<"a","l","r","e","a","d","y"," ","r","u","n","n","i","n","g">>
\* Texts produced by the operating system / os/exec, not by this repository.
StartErrMsg == <<"e","x","e","c",":"," ","n","o","t"," ","f","o","u","n","d">>
ExitStatusMsg == <<"e","x","i","t"," ","s","t","a","t","u","s"," ","1">>
WaitNoChildMsg == <<"w","a","i","t",":"," ","n","o"," ","c","h","i","l","d">>

KilledMsg == <<"s","i","g","n","a","l",":"," ","t","e","r","m","i","n","a","t","e","d">>

\* Command templates the agent may be constructed with.  The scenarios are
\* those of the repository's tests: a pool of concurrent requests, with empty
\* payloads, to a program that sleeps (SleepCmd); and one request, with a
\* payload, to a program that reads its input and writes to its outputs
\* (ProgCmd); besides them, the templates runProcess does not get to run.
SleepCmd == <<"s">>
ProgCmd == <<"p", " ", "-", "c">>
Templates ==
  { << >>,                 \* empty
    <<" ", "\t">>,         \* whitespace only
    <<"x", " ", "'", "y">>,\* unclosed quote
    <<"\\">>,              \* a lone backslash: no token, no error
    SleepCmd,
    ProgCmd
  }

\* The number of requests the transport delivers to an agent with this template.
Requests(cmd) == IF cmd = SleepCmd THEN MaxReq ELSE 1

\* Request payloads.
Payloads(cmd) == IF cmd = SleepCmd THEN { << >> } ELSE { <<"a">>, <<"%">> }

\* ----------------------------------------------------------- pure helpers
\* A whitespace test that knows the blank only.
IsBlank(c) == c = " "

IsSpace(c) == c \in {" ", "\t", "\n", "\r"}

IsQuote(c) == c \in {"\"", "'"}

RECURSIVE TrimLeft(_)
TrimLeft(s) ==
  IF s # << >> /\ IsSpace(Head(s)) THEN TrimLeft(Tail(s)) ELSE s

RECURSIVE TrimRight(_)
TrimRight(s) ==
  IF s # << >> /\ IsSpace(s[Len(s)]) THEN TrimRight(SubSeq(s, 1, Len(s) - 1)) ELSE s

TrimSpace(s) == TrimRight(TrimLeft(s))

\* The code after Tokenize's scanning loop.
TokenizeEnd(tokens, token, strGroup) ==
  IF token # << >>
    THEN IF strGroup
           THEN [err |-> TRUE, tokens |-> << >>]
           ELSE [err |-> FALSE, tokens |-> Append(tokens, token)]
    ELSE [err |-> FALSE, tokens |-> tokens]

\* Tokenize's scanning loop at index i (1-based) of str.
RECURSIVE TokenizeFrom(_, _, _, _, _)
TokenizeFrom(str, i, tokens, token, strGroup) ==
  IF i = Len(str) + 1
    THEN TokenizeEnd(tokens, token, strGroup)
    ELSE LET c == str[i] IN
      IF c = "\\"
        THEN IF i = Len(str)
               THEN TokenizeEnd(tokens, token, strGroup)
               ELSE LET next == str[i + 1] IN
                 IF next = "\\" \/ next = "\"" \/ next = "'"
                   THEN TokenizeFrom(str, i + 2, tokens, Append(token, next), strGroup)
                   ELSE TokenizeFrom(str, i + 1, tokens, Append(token, c), strGroup)
      ELSE IF IsQuote(c)
        THEN IF strGroup
               THEN TokenizeFrom(str, i + 1, Append(tokens, token), << >>, FALSE)
               ELSE TokenizeFrom(str, i + 1, tokens, token, TRUE)
      ELSE IF IsSpace(c)
        THEN IF strGroup
               THEN TokenizeFrom(str, i + 1, tokens, Append(token, c), strGroup)
               ELSE IF token # << >>
                      THEN TokenizeFrom(str, i + 1, Append(tokens, token), << >>, strGroup)
                      ELSE TokenizeFrom(str, i + 1, tokens, token, strGroup)
      ELSE TokenizeFrom(str, i + 1, tokens, Append(token, c), strGroup)

Tokenize(str) == TokenizeFrom(str, 1, << >>, << >>, FALSE)

\* fmt.Errorf(format) called with no arguments, for formats whose characters
\* after a '%' are never flags, digits, '.', '*' or '[' (true of every text
\* of this model): "%%" prints "%", "%" at the end prints "%!(NOVERB)", and
\* "%c" prints "%!c(MISSING)".
RECURSIVE Errorf(_)
Errorf(format) ==
  IF format = << >> THEN << >>
  ELSE IF Head(format) # "%" THEN <<Head(format)>> \o Errorf(Tail(format))
  ELSE IF Len(format) = 1 THEN <<"%","!","(","N","O","V","E","R","B",")">>
  ELSE IF format[2] = "%" THEN <<"%">> \o Errorf(SubSeq(format, 3, Len(format)))
  ELSE <<"%","!",format[2],"(","M","I","S","S","I","N","G",")">>
         \o Errorf(SubSeq(format, 3, Len(format)))


\* The decimal digits of a natural number (strconv, as json.Marshal writes
\* an int64).
RECURSIVE Digits(_)
Digits(n) ==
  LET last == <<<<"0">>, <<"1">>, <<"2">>, <<"3">>, <<"4">>, <<"5">>, <<"6">>,
                <<"7">>, <<"8">>, <<"9">>>>[(n % 10) + 1]
  IN IF n < 10 THEN last ELSE Digits(n \div 10) \o last

\* The inside of a JSON string as json.Marshal writes it, for texts without
\* control characters, '<', '>' and '&': '"' and '\' get a backslash.
RECURSIVE JSONEscape(_)
JSONEscape(s) ==
  IF s = << >> THEN << >>
  ELSE IF Head(s) = "\"" \/ Head(s) = "\\"
    THEN <<"\\", Head(s)>> \o JSONEscape(Tail(s))
  ELSE <<Head(s)>> \o JSONEscape(Tail(s))

JSONString(s) == <<"\"">> \o JSONEscape(s) \o <<"\"">>

\* json.Marshal(resp) for a Response: the fields in the order of the struct,
\* the port always empty, error and errorCode left out when nil.
Marshal(rs) ==
  <<"{", "\"", "i", "d", "\"", ":">> \o JSONString(rs.id)
  \o <<",", "\"", "p", "o", "r", "t", "\"", ":", "\"", "\"">>
  \o <<",", "\"", "p", "a", "y", "l", "o", "a", "d", "\"", ":">> \o JSONString(rs.payload)
  \o <<",", "\"", "t", "i", "m", "e", "s", "t", "a", "m", "p", "\"", ":">> \o Digits(rs.timestamp)
  \o (IF rs.error = "nil" THEN << >>
      ELSE <<",", "\"", "e", "r", "r", "o", "r", "\"", ":", "t", "r", "u", "e", ",", "\"", "e", "r", "r", "o", "r", "C", "o", "d", "e", "\"", ":">>
           \o Digits(rs.errorCode))
  \o <<"}">>

\* ------------------------------------------------------------------- state
VARIABLES
  execCommand,  \* LocalProcessAgent.execCommand: the command template
  maxParallel,  \* LocalProcessAgent.maxParallel
  running,      \* LocalProcessAgent.running: the pids registered (pid = wrapper)
  lock,         \* LocalProcessAgent.lock: <<"free", 0>> or its holder
  fatal,        \* the Go runtime aborted the program (concurrent map access)
  pc,           \* position of each ProcessCommand call
  path,         \* how each call went: none, rejected, setup, panic, startfail, ran
  req,          \* Request.Payload of each call
  resp,         \* the Response of each call
  ret,          \* what each ProcessCommand call returned
  w,            \* processWrapper of each call: running flag, cmd.Process set
  proc,         \* the OS process of each wrapper
  res,          \* (outStr, errStr) returned by exec
  start,        \* the goroutine "go w.processStarts(w)" of each wrapper
  ends,         \* number of times processEnds was invoked on each wrapper
  stopPc,       \* position of the agent's Stop call
  stopCur,      \* the registry entry Stop is stopping
  stopVisited,  \* the entries Stop's range loop produced, in order
  stopStartKeys,\* the entries present when Stop's range loop began
  stopAlive,    \* the processes alive when Stop was invoked
  stopFailed,   \* the entries whose stopProcess returned an error
  stopRet,      \* what Stop returned
  tokStr,       \* Tokenize called on its own: its argument
  tokRes,       \* ... and what it returned
  handlers,     \* the Handlers applied to the worker, in order of application
  middlewares,  \* MiddlewareInputPort.middlewares
  portPc,       \* position of the ExecuteMiddlewares call
  stageIdx,     \* index of the middleware the range loop is at
  depth,        \* the decorator being run: handlers[depth]; 0: the inner stage
  portReq,      \* the Request given to ExecuteMiddlewares
  portResp,     \* the Response given to ExecuteMiddlewares
  stageErr,     \* the error the stage that returned last returned (NoText: nil)
  portRet,      \* what ExecuteMiddlewares returned
  clock,        \* the time in milliseconds
  executed,     \* what ran, in order: <<stage, decorator or "terminal", phase>>
  \* a process wrapper used on its own (as the tests of the wrapper do)
  pw,           \* the wrapper: running, cmd, stdin, stdout, stderr
  pwProc,       \* the process of the command built by each exec call
  execCall,     \* each exec call: where it is and what it returned
  stopCall,     \* each stopProcess call: where it is and what it returned
  fired,        \* how often the on-start and on-end callbacks were invoked
  crashed       \* a call dereferenced a nil pointer: the program panicked

vars == <<execCommand, maxParallel, running, lock, fatal, pc, path, req, resp,
          ret, w, proc, res, start, ends, stopPc, stopCur, stopVisited,
          stopStartKeys, stopAlive, stopFailed, stopRet, tokStr, tokRes,
          handlers, middlewares, portPc, stageIdx, depth, portReq, portResp,
          stageErr, portRet, clock, executed, pw, pwProc, execCall,
          stopCall, fired, crashed>>

agentVars == <<execCommand, maxParallel>>
tokVars == <<tokStr, tokRes>>
portVars == <<handlers, middlewares, portPc, stageIdx, depth, portReq, portResp,
              stageErr, portRet, clock, executed>>
wrapVars == <<pw, pwProc, execCall, stopCall, fired, crashed>>
stopVars == <<stopPc, stopCur, stopVisited, stopStartKeys, stopAlive, stopFailed, stopRet>>

Free == <<"free", 0>>

\* &Request{} and &Response{} as a transport listener creates them.
NewRequest == [id |-> NoText, timestamp |-> 0]
NewResponse ==
  [id |-> NoText, payload |-> NoText, timestamp |-> 0, error |-> "nil", errorCode |-> 0]

\* tokRes before Tokenize has returned.
NotCalled == [err |-> FALSE, tokens |-> << >>, called |-> FALSE]

\* A Response as the transport listener creates it: &Response{}.
EmptyResponse == [payload |-> NoText, error |-> "nil", errorCode |-> 0]

NoRet == [kind |-> "none", msg |-> NoText]
NilRet == [kind |-> "nil", msg |-> NoText]
ErrRet(msg) == [kind |-> "err", msg |-> msg]
PanicRet == [kind |-> "panic", msg |-> NoText]

\* newProcessWrapper: not running, no process, empty buffers.
NewWrapper == [running |-> FALSE, started |-> FALSE]

NoProc == [st |-> "none", signalled |-> FALSE, out |-> NoText, err |-> NoText, status |-> 0]

\* No ProcessCommand call and no Stop call has been made.
NoRequests ==
  /\ running = {}
  /\ lock = Free
  /\ fatal = FALSE
  /\ pc = [r \in Reqs |-> "idle"]
  /\ path = [r \in Reqs |-> "none"]
  /\ req = [r \in Reqs |-> NoText]
  /\ resp = [r \in Reqs |-> EmptyResponse]
  /\ ret = [r \in Reqs |-> NoRet]
  /\ w = [r \in Reqs |-> NewWrapper]
  /\ proc = [r \in Reqs |-> NoProc]
  /\ res = [r \in Reqs |-> [out |-> NoText, err |-> NoText]]
  /\ start = [r \in Reqs |-> "none"]
  /\ ends = [r \in Reqs |-> 0]
  /\ stopPc = "idle"
  /\ stopCur = 0
  /\ stopVisited = << >>
  /\ stopStartKeys = {}
  /\ stopAlive = {}
  /\ stopFailed = {}
  /\ stopRet = "none"

\* Tokenize has not been called on its own.
NoTokenizeCall == tokStr = NoText /\ tokRes = NotCalled

\* ExecuteMiddlewares has not been called.
NoPortCall ==
  /\ portPc = "idle"
  /\ stageIdx = 0
  /\ depth = 0
  /\ portReq = NewRequest
  /\ portResp = NewResponse
  /\ stageErr = NoText
  /\ portRet = NoRet
  /\ clock = 1
  /\ executed = << >>

\* newProcessWrapper: the buffers are empty, no command, not running.
NewProcessWrapper ==
  [running |-> FALSE, cmd |-> 0, stdin |-> 0, stdout |-> NoText, stderr |-> NoText]

\* A command whose process was not started.
NotStarted == [st |-> "none", signalled |-> FALSE, denied |-> FALSE, status |-> 0]

NoExecCall == [pc |-> "idle", out |-> NoText, err |-> NoText]
NoStopCall == [pc |-> "idle", ret |-> "none", found |-> FALSE, target |-> 0,
               ended |-> FALSE]

\* No call was made on a wrapper on its own.
NoWrapperCall ==
  /\ pw = NewProcessWrapper
  /\ pwProc = [k \in Calls |-> NotStarted]
  /\ execCall = [c \in Calls |-> NoExecCall]
  /\ stopCall = [s \in Stops |-> NoStopCall]
  /\ fired = [start |-> 0, end |-> 0]
  /\ crashed = FALSE

\* NewProcessAgent, and no request received yet.
Init ==
  /\ execCommand \in Templates
  /\ maxParallel \in 0..MaxBound
  /\ NoRequests
  /\ NoTokenizeCall
  /\ handlers = << >> /\ middlewares = << >>
  /\ NoPortCall
  /\ NoWrapperCall

\* ------------------------------------------------- ProcessCommand: entry
\* The admission test of ProcessCommand (read without the lock).
\* The admission test without its test for the bound 0.
AtCapacityZeroBounds == maxParallel <= Cardinality(running)

AtCapacity == maxParallel # 0 /\ maxParallel <= Cardinality(running)

\* runProcess up to the call of exec: the setup error, or the executable.
RunProcessSetup(execStr) ==
  LET trimmed == TrimSpace(execStr)
      tok == Tokenize(trimmed)
  IN IF trimmed = << >> THEN [kind |-> "setup", msg |-> Errorf(NoExecMsg)]
     ELSE IF tok.err THEN [kind |-> "setup", msg |-> Errorf(UnclosedMsg)]
     ELSE IF tok.tokens = << >> THEN [kind |-> "panic", msg |-> NoText]
     ELSE [kind |-> "exec", msg |-> NoText]

\* The error runProcess makes of exec's errStr: fmt.Errorf(errStr).
RunProcessError(errStr) == Errorf(errStr)

\* A ProcessCommand that left the Response alone when runProcess failed.
PopulateResponseNoFlag(response, output, failed, errText) ==
  [response EXCEPT !.payload = IF failed THEN errText ELSE output]

\* ProcessCommand after runProcess returned (output, err); errText is
\* err.Error(), failed says err != nil.
PopulateResponse(response, output, failed, errText) ==
  IF failed
    THEN [payload |-> errText, error |-> "true", errorCode |-> 500]
    ELSE [response EXCEPT !.payload = output]

\* A ProcessCommand that returned runProcess's error to its caller.
ProcessCommandReturnsErr(failed, errText) ==
  IF failed THEN ErrRet(errText) ELSE NilRet

\* The value ProcessCommand returns once runProcess was called.
ProcessCommandReturn(failed, errText) == NilRet

\* Requests are numbered in the order their calls are made.
MayCall(r) ==
  /\ pc[r] = "idle"
  /\ r <= Requests(execCommand)
  /\ (IF r = 1 THEN TRUE ELSE pc[r - 1] # "idle")

\* A rejection that wrote the failure into the Response.
RejectedResponseFlagged(response) ==
  PopulateResponse(response, NoText, TRUE, MaxWorkersMsg)

\* The Response after a rejection: ProcessCommand returns the error before
\* it touches resp.
RejectedResponse(response) == response

\* ProcessCommand, rejected by the admission test: it returns at once,
\* without taking the lock.
Reject(r) ==
  /\ ~fatal /\ MayCall(r) /\ AtCapacity
  /\ \E p \in Payloads(execCommand) : req' = [req EXCEPT ![r] = p]
  /\ ret' = [ret EXCEPT ![r] = ErrRet(MaxWorkersMsg)]
  /\ resp' = [resp EXCEPT ![r] = RejectedResponse(resp[r])]
  /\ path' = [path EXCEPT ![r] = "rejected"]
  /\ pc' = [pc EXCEPT ![r] = "done"]
  /\ UNCHANGED <<agentVars, tokVars, portVars, wrapVars, running, lock, fatal, w, proc, res, start, ends, stopVars>>

\* ProcessCommand, admitted; runProcess fails before exec is called.
SetupError(r) ==
  /\ ~fatal /\ MayCall(r) /\ ~AtCapacity
  /\ RunProcessSetup(execCommand).kind = "setup"
  /\ \E p \in Payloads(execCommand) : req' = [req EXCEPT ![r] = p]
  /\ LET msg == RunProcessSetup(execCommand).msg IN
       /\ resp' = [resp EXCEPT ![r] = PopulateResponse(resp[r], NoText, TRUE, msg)]
       /\ ret' = [ret EXCEPT ![r] = ProcessCommandReturn(TRUE, msg)]
  /\ path' = [path EXCEPT ![r] = "setup"]
  /\ pc' = [pc EXCEPT ![r] = "done"]
  /\ UNCHANGED <<agentVars, tokVars, portVars, wrapVars, running, lock, fatal, w, proc, res, start, ends, stopVars>>

\* ProcessCommand, admitted; Tokenize returned no token and no error, and
\* runProcess indexes args[0]: the call panics.
TokenPanic(r) ==
  /\ ~fatal /\ MayCall(r) /\ ~AtCapacity
  /\ RunProcessSetup(execCommand).kind = "panic"
  /\ \E p \in Payloads(execCommand) : req' = [req EXCEPT ![r] = p]
  /\ ret' = [ret EXCEPT ![r] = PanicRet]
  /\ path' = [path EXCEPT ![r] = "panic"]
  /\ pc' = [pc EXCEPT ![r] = "done"]
  /\ UNCHANGED <<agentVars, tokVars, portVars, wrapVars, running, lock, fatal, resp, w, proc, res, start, ends, stopVars>>

\* ProcessCommand, admitted; exec sets running, cmd.Start fails, the deferred
\* callEnd clears running and invokes processEnds (cmd.Process is nil, so
\* nothing is deleted), and ProcessCommand fills the Response.
StartFail(r) ==
  /\ ~fatal /\ MayCall(r) /\ ~AtCapacity
  /\ RunProcessSetup(execCommand).kind = "exec"
  /\ \E p \in Payloads(execCommand) : req' = [req EXCEPT ![r] = p]
  /\ w' = [w EXCEPT ![r] = [running |-> FALSE, started |-> FALSE]]
  /\ ends' = [ends EXCEPT ![r] = @ + 1]
  /\ res' = [res EXCEPT ![r] = [out |-> NoText, err |-> StartErrMsg]]
  /\ LET msg == RunProcessError(StartErrMsg) IN
       /\ resp' = [resp EXCEPT ![r] = PopulateResponse(resp[r], NoText, TRUE, msg)]
       /\ ret' = [ret EXCEPT ![r] = ProcessCommandReturn(TRUE, msg)]
  /\ path' = [path EXCEPT ![r] = "startfail"]
  /\ pc' = [pc EXCEPT ![r] = "done"]
  /\ UNCHANGED <<agentVars, tokVars, portVars, wrapVars, running, lock, fatal, proc, start, stopVars>>

\* ProcessCommand, admitted; exec sets running, cmd.Start succeeds, the
\* on-start goroutine is spawned and exec blocks in cmd.Wait.
StartOk(r) ==
  /\ ~fatal /\ MayCall(r) /\ ~AtCapacity
  /\ RunProcessSetup(execCommand).kind = "exec"
  /\ \E p \in Payloads(execCommand) : req' = [req EXCEPT ![r] = p]
  /\ w' = [w EXCEPT ![r] = [running |-> TRUE, started |-> TRUE]]
  /\ proc' = [proc EXCEPT ![r] = [NoProc EXCEPT !.st = "alive"]]
  /\ start' = [start EXCEPT ![r] = "pending"]
  /\ path' = [path EXCEPT ![r] = "ran"]
  /\ pc' = [pc EXCEPT ![r] = "wait"]
  /\ UNCHANGED <<agentVars, tokVars, portVars, wrapVars, running, lock, fatal, resp, ret, res, ends, stopVars>>


\* ------------------------------------------------- the external process
\* What a process may have done by the time it exits: its standard output,
\* its standard error and its exit status (-1: killed by SIGTERM).  The
\* sleeping program writes nothing and dies of a SIGTERM it received; the
\* other program may handle the signal.
Behaviours(cmd, input, signalled) ==
  IF cmd = SleepCmd
    THEN { [out |-> NoText, err |-> NoText, status |-> IF signalled THEN -1 ELSE 0] }
    ELSE { [out |-> input, err |-> NoText, status |-> 0],     \* echoes its input
           [out |-> <<"o">>, err |-> <<"e">>, status |-> 0],  \* diagnostics, exit 0
           [out |-> <<"o">>, err |-> <<"%">>, status |-> 0],
           [out |-> <<"o">>, err |-> <<"e">>, status |-> 1] } \* fails
         \cup (IF signalled THEN { [out |-> NoText, err |-> NoText, status |-> -1] }
               ELSE {})

\* The process of wrapper r exits (on its own, or on SIGTERM).
ProcExit(r) ==
  /\ ~fatal /\ proc[r].st = "alive"
  /\ \E b \in Behaviours(execCommand, req[r], proc[r].signalled) :
       proc' = [proc EXCEPT ![r] = [@ EXCEPT !.st = "exited", !.out = b.out,
                                             !.err = b.err, !.status = b.status]]
  /\ UNCHANGED <<agentVars, tokVars, portVars, wrapVars, running, lock, fatal, pc, path, req, resp, ret, w,
                 res, start, ends, stopVars>>

\* ------------------------------------------------- the on-start goroutine
\* go w.processStarts(w): p.lock.Lock()
OnStartLock(r) ==
  /\ ~fatal /\ start[r] = "pending" /\ lock = Free
  /\ lock' = <<"start", r>>
  /\ start' = [start EXCEPT ![r] = "locked"]
  /\ UNCHANGED <<agentVars, tokVars, portVars, wrapVars, running, fatal, pc, path, req, resp, ret, w, proc,
                 res, ends, stopVars>>

\* p.running[pid] = pw; p.lock.Unlock()
OnStartInsert(r) ==
  /\ ~fatal /\ start[r] = "locked" /\ lock = <<"start", r>>
  /\ running' = running \cup {r}
  /\ lock' = Free
  /\ start' = [start EXCEPT ![r] = "done"]
  /\ UNCHANGED <<agentVars, tokVars, portVars, wrapVars, fatal, pc, path, req, resp, ret, w, proc, res, ends,
                 stopVars>>

\* ------------------------------------------------- exec after cmd.Start
\* What exec returns once cmd.Wait returned: waitErr is the text of Wait's
\* error (NoText: no error).
ExecResult(waitErr, stdout, stderr) ==
  IF waitErr # NoText THEN [out |-> NoText, err |-> waitErr]
  ELSE IF stderr # NoText THEN [out |-> NoText, err |-> stderr]
  ELSE [out |-> stdout, err |-> NoText]

\* The text of the error cmd.Wait returns for an exit status (NoText: nil).
WaitError(status) ==
  IF status = 0 THEN NoText ELSE IF status = -1 THEN KilledMsg ELSE ExitStatusMsg

\* cmd.Wait returns in exec: the process has exited; Wait fails when the
\* exit status is not 0 or when stopProcess has already reaped the process.
ExecWait(r) ==
  /\ ~fatal /\ pc[r] = "wait" /\ proc[r].st \in {"exited", "reaped"}
  /\ LET waitErr == IF proc[r].st = "reaped" THEN WaitNoChildMsg
                    ELSE WaitError(proc[r].status)
     IN res' = [res EXCEPT ![r] = ExecResult(waitErr, proc[r].out, proc[r].err)]
  /\ proc' = [proc EXCEPT ![r].st = "reaped"]
  /\ pc' = [pc EXCEPT ![r] = "endCheck"]
  /\ UNCHANGED <<agentVars, tokVars, portVars, wrapVars, running, lock, fatal, path, req, resp, ret, w,
                 start, ends, stopVars>>

\* runProcess and ProcessCommand after exec returned: the Response and the
\* returned value.
Finish(r) ==
  /\ resp' = [resp EXCEPT ![r] =
                PopulateResponse(resp[r], res[r].out, res[r].err # NoText,
                                 RunProcessError(res[r].err))]
  /\ ret' = [ret EXCEPT ![r] =
               ProcessCommandReturn(res[r].err # NoText, RunProcessError(res[r].err))]
  /\ pc' = [pc EXCEPT ![r] = "done"]

\* callEnd's test of w.running, as its caller reads it.
CallEndFires(r) == w[r].running

\* exec's deferred callEnd reads w.running; when it is false callEnd does
\* nothing and exec returns.
ExecEndCheck(r) ==
  /\ ~fatal /\ pc[r] = "endCheck"
  /\ IF CallEndFires(r)
       THEN /\ pc' = [pc EXCEPT ![r] = "endSet"]
            /\ UNCHANGED <<resp, ret>>
       ELSE Finish(r)
  /\ UNCHANGED <<agentVars, tokVars, portVars, wrapVars, running, lock, fatal, path, req, w, proc, res,
                 start, ends, stopVars>>

\* callEnd: w.running = false, then processEnds(w) is invoked.
ExecEndSet(r) ==
  /\ ~fatal /\ pc[r] = "endSet"
  /\ w' = [w EXCEPT ![r].running = FALSE]
  /\ ends' = [ends EXCEPT ![r] = @ + 1]
  /\ pc' = [pc EXCEPT ![r] = "endLock"]
  /\ UNCHANGED <<agentVars, tokVars, portVars, wrapVars, running, lock, fatal, path, req, resp, ret, proc,
                 res, start, stopVars>>

\* processEnds: p.lock.Lock()
ExecEndLock(r) ==
  /\ ~fatal /\ pc[r] = "endLock" /\ lock = Free
  /\ lock' = <<"end", r>>
  /\ pc' = [pc EXCEPT ![r] = "endDel"]
  /\ UNCHANGED <<agentVars, tokVars, portVars, wrapVars, running, fatal, path, req, resp, ret, w, proc, res,
                 start, ends, stopVars>>

\* processEnds: delete(p.running, pid); p.lock.Unlock(); exec returns.
ExecEndDelete(r) ==
  /\ ~fatal /\ pc[r] = "endDel" /\ lock = <<"end", r>>
  /\ running' = running \ {r}
  /\ lock' = Free
  /\ Finish(r)
  /\ UNCHANGED <<agentVars, tokVars, portVars, wrapVars, fatal, path, req, w, proc, res, start, ends, stopVars>>


\* ------------------------------------------------------------ agent Stop
\* Stop is called (once, by the shutdown handler): the range loop over
\* p.running begins.  No lock is taken.
StopBegin ==
  /\ ~fatal /\ stopPc = "idle"
  /\ stopPc' = "loop"
  /\ stopStartKeys' = running
  /\ stopAlive' = {r \in Reqs : proc[r].st = "alive"}
  /\ UNCHANGED <<agentVars, tokVars, portVars, wrapVars, running, lock, fatal, pc, path, req, resp, ret, w,
                 proc, res, start, ends, stopCur, stopVisited, stopFailed, stopRet>>

\* The entries the range loop may produce next: those of the live map not
\* produced yet.
StopCandidates == running \ {stopVisited[i] : i \in 1..Len(stopVisited)}

\* The entries the range loop must still produce: present since the loop
\* began, not deleted, not produced yet (an entry inserted during the loop
\* may be produced or skipped).
StopPending == StopCandidates \cap stopStartKeys

\* The range loop produces the entry pid and calls pw.stopProcess().
StopNext(pid) ==
  /\ ~fatal /\ stopPc = "loop" /\ pid \in StopCandidates
  /\ stopCur' = pid
  /\ stopVisited' = Append(stopVisited, pid)
  /\ stopPc' = "check"
  /\ UNCHANGED <<agentVars, tokVars, portVars, wrapVars, running, lock, fatal, pc, path, req, resp, ret, w,
                 proc, res, start, ends, stopStartKeys, stopAlive, stopFailed, stopRet>>

\* The range loop ends and Stop returns nil.
StopReturn ==
  /\ ~fatal /\ stopPc = "loop" /\ StopPending = {}
  /\ stopPc' = "done"
  /\ stopRet' = "nil"
  /\ stopCur' = 0
  /\ UNCHANGED <<agentVars, tokVars, portVars, wrapVars, running, lock, fatal, pc, path, req, resp, ret, w,
                 proc, res, start, ends, stopVisited, stopStartKeys, stopAlive, stopFailed>>

\* The range loop reads the map while a writer is inside its critical
\* section: the runtime may detect it and abort the program
\* ("concurrent map iteration and map write").
StopFatal ==
  /\ ~fatal /\ stopPc = "loop" /\ lock # Free
  /\ fatal' = TRUE
  /\ UNCHANGED <<agentVars, tokVars, portVars, wrapVars, running, lock, pc, path, req, resp, ret, w, proc,
                 res, start, ends, stopVars>>

\* A Stop that gave up at the first stopProcess that failed.
StopAbortsOnFailure(err) == IF err THEN "done" ELSE "loop"

\* Where Stop goes after stopProcess returned (err: it returned an error):
\* the error is logged and the loop goes on.
StopAfterEntry(err) == "loop"

\* stopProcess reads w.running: when false it returns nil, and its deferred
\* callEnd does nothing.
StopCheck ==
  /\ ~fatal /\ stopPc = "check"
  /\ stopPc' = IF w[stopCur].running THEN "signal" ELSE StopAfterEntry(FALSE)
  /\ UNCHANGED <<agentVars, tokVars, portVars, wrapVars, running, lock, fatal, pc, path, req, resp, ret, w,
                 proc, res, start, ends, stopCur, stopVisited, stopStartKeys,
                 stopAlive, stopFailed, stopRet>>

\* Process.Signal fails exactly when the process was already waited for
\* ("os: process already finished").
SignalFails(p) == p.st = "reaped"

\* stopProcess: cmd.Process.Signal(SIGTERM); on an error it returns nil
\* without waiting (then the deferred callEnd runs).
StopSignal ==
  /\ ~fatal /\ stopPc = "signal"
  /\ IF SignalFails(proc[stopCur])
       THEN /\ stopPc' = "endCheck"
            /\ UNCHANGED proc
       ELSE /\ stopPc' = "wait"
            /\ proc' = [proc EXCEPT ![stopCur].signalled = TRUE]
  /\ UNCHANGED <<agentVars, tokVars, portVars, wrapVars, running, lock, fatal, pc, path, req, resp, ret, w,
                 res, start, ends, stopCur, stopVisited, stopStartKeys,
                 stopAlive, stopFailed, stopRet>>

\* stopProcess: cmd.Process.Wait() returns once the process has exited; it
\* fails when exec's cmd.Wait has already reaped the process.
StopWait ==
  /\ ~fatal /\ stopPc = "wait" /\ proc[stopCur].st \in {"exited", "reaped"}
  /\ stopFailed' = IF proc[stopCur].st = "reaped" THEN stopFailed \cup {stopCur}
                   ELSE stopFailed
  /\ proc' = [proc EXCEPT ![stopCur].st = "reaped"]
  /\ stopPc' = "endCheck"
  /\ UNCHANGED <<agentVars, tokVars, portVars, wrapVars, running, lock, fatal, pc, path, req, resp, ret, w,
                 res, start, ends, stopCur, stopVisited, stopStartKeys,
                 stopAlive, stopRet>>

\* stopProcess's deferred callEnd reads w.running.
StopEndCheck ==
  /\ ~fatal /\ stopPc = "endCheck"
  /\ stopPc' = IF CallEndFires(stopCur) THEN "endSet"
               ELSE StopAfterEntry(stopCur \in stopFailed)
  /\ UNCHANGED <<agentVars, tokVars, portVars, wrapVars, running, lock, fatal, pc, path, req, resp, ret, w,
                 proc, res, start, ends, stopCur, stopVisited, stopStartKeys,
                 stopAlive, stopFailed, stopRet>>

\* callEnd: w.running = false, then processEnds(w) is invoked.
StopEndSet ==
  /\ ~fatal /\ stopPc = "endSet"
  /\ w' = [w EXCEPT ![stopCur].running = FALSE]
  /\ ends' = [ends EXCEPT ![stopCur] = @ + 1]
  /\ stopPc' = "endLock"
  /\ UNCHANGED <<agentVars, tokVars, portVars, wrapVars, running, lock, fatal, pc, path, req, resp, ret,
                 proc, res, start, stopCur, stopVisited, stopStartKeys,
                 stopAlive, stopFailed, stopRet>>

\* processEnds: p.lock.Lock()
StopEndLock ==
  /\ ~fatal /\ stopPc = "endLock" /\ lock = Free
  /\ lock' = <<"stop", stopCur>>
  /\ stopPc' = "endDel"
  /\ UNCHANGED <<agentVars, tokVars, portVars, wrapVars, running, fatal, pc, path, req, resp, ret, w, proc,
                 res, start, ends, stopCur, stopVisited, stopStartKeys,
                 stopAlive, stopFailed, stopRet>>

\* processEnds: delete(p.running, pid); p.lock.Unlock(); stopProcess returns.
StopEndDelete ==
  /\ ~fatal /\ stopPc = "endDel" /\ lock = <<"stop", stopCur>>
  /\ running' = running \ {stopCur}
  /\ lock' = Free
  /\ stopPc' = StopAfterEntry(stopCur \in stopFailed)
  /\ UNCHANGED <<agentVars, tokVars, portVars, wrapVars, fatal, pc, path, req, resp, ret, w, proc, res,
                 start, ends, stopCur, stopVisited, stopStartKeys, stopAlive,
                 stopFailed, stopRet>>

\* ----------------------------------------------------------- specification
Next ==
  \/ \E r \in Reqs : Reject(r)
  \/ \E r \in Reqs : SetupError(r)
  \/ \E r \in Reqs : TokenPanic(r)
  \/ \E r \in Reqs : StartFail(r)
  \/ \E r \in Reqs : StartOk(r)
  \/ \E r \in Reqs : ProcExit(r)
  \/ \E r \in Reqs : OnStartLock(r)
  \/ \E r \in Reqs : OnStartInsert(r)
  \/ \E r \in Reqs : ExecWait(r)
  \/ \E r \in Reqs : ExecEndCheck(r)
  \/ \E r \in Reqs : ExecEndSet(r)
  \/ \E r \in Reqs : ExecEndLock(r)
  \/ \E r \in Reqs : ExecEndDelete(r)
  \/ StopBegin
  \/ \E pid \in Reqs : StopNext(pid)
  \/ StopReturn
  \/ StopFatal
  \/ StopCheck
  \/ StopSignal
  \/ StopWait
  \/ StopEndCheck
  \/ StopEndSet
  \/ StopEndLock
  \/ StopEndDelete

Spec == Init /\ [][Next]_vars

\* The steps of one ProcessCommand call, of its process and of its on-start
\* goroutine.
RequestStep(r) ==
  \/ Reject(r) \/ SetupError(r) \/ TokenPanic(r) \/ StartFail(r) \/ StartOk(r)
  \/ ProcExit(r) \/ OnStartLock(r) \/ OnStartInsert(r) \/ ExecWait(r)
  \/ ExecEndCheck(r) \/ ExecEndSet(r) \/ ExecEndLock(r) \/ ExecEndDelete(r)

\* The steps of the task that called Stop, once it has called it.
StopStep ==
  \/ (\E pid \in Reqs : StopNext(pid)) \/ StopReturn \/ StopFatal \/ StopCheck
  \/ StopSignal \/ StopWait \/ StopEndCheck \/ StopEndSet \/ StopEndLock
  \/ StopEndDelete

\* The Go scheduler runs every runnable task, and every process exits.
FairSpec ==
  /\ Spec
  /\ \A r \in Reqs : WF_vars(RequestStep(r))
  /\ WF_vars(StopStep)

\* ------------------------------------------------- Tokenize on its own
\* The characters of the command lines given to Tokenize: a plain
\* character, a blank, a tab, the two quotes and the backslash.
Alphabet == {"a", " ", "\t", "\"", "'", "\\"}

CommandLines == UNION {[1..n -> Alphabet] : n \in 0..MaxLen}

\* Every variable of the agent, its calls and its Stop.
procVars == <<execCommand, maxParallel, running, lock, fatal, pc, path, req,
              resp, ret, w, proc, res, start, ends, stopVars>>

TokInit ==
  /\ execCommand = NoText /\ maxParallel = 0
  /\ NoRequests
  /\ tokStr \in CommandLines
  /\ tokRes = NotCalled
  /\ handlers = << >> /\ middlewares = << >>
  /\ NoPortCall
  /\ NoWrapperCall

\* tokens, err := Tokenize(str)
TokenizeCall ==
  /\ ~tokRes.called
  /\ tokRes' = [err |-> Tokenize(tokStr).err, tokens |-> Tokenize(tokStr).tokens,
                called |-> TRUE]
  /\ UNCHANGED <<procVars, portVars, wrapVars, tokStr>>

TokNext == TokenizeCall

TokSpec == TokInit /\ [][TokNext]_vars

\* ------------------------------------------------- decorators and the port
\* The Handlers of the package.
Decorators == {"RequestID", "RequestTimestamp", "ResponseTimestamp", "JSONResponse"}

\* The lists of Handlers applied to a stage by "stage = handler(stage)", each
\* Handler at most once.
Chains ==
  {hs \in UNION {[1..n -> Decorators] : n \in 0..Cardinality(Decorators)} :
     \A i, j \in 1..Len(hs) : i # j => hs[i] # hs[j]}

\* ResponseTimestamp(RequestTimestamp(stage)), the stage of the port's test.
TestChain == <<"RequestTimestamp", "ResponseTimestamp">>

\* A registered middleware: decorated with the handlers or not, and whether
\* its innermost function returns an error.
Stages == [decorated : BOOLEAN, fails : BOOLEAN]

Ports == UNION {[1..n -> Stages] : n \in 0..MaxStages}

\* The strings GenerateRandomString may return.
Ids == {<<"x">>, <<"y">>}

\* The error the innermost function of stage i returns.
ErrOf(i) == <<"E">> \o Digits(i)

\* The decorators around stage i, in order of application.
Wraps(i) == IF middlewares[i].decorated THEN handlers ELSE << >>

\* A stage is called at its first decorator instead of its last.
OuterIsFirstApplied(hs) == IF hs = << >> THEN 0 ELSE 1

\* The decorator that runs first when the stage is called: the last applied.
Outer(hs) == Len(hs)

\* What the decorator at depth k calls: the decorator applied before it, or
\* the innermost function (0).
Inner(k) == k - 1

\* RequestID and RequestTimestamp before they call inward.
PreRequest(d, rq, id, now) ==
  IF d = "RequestID" THEN [rq EXCEPT !.id = id]
  ELSE IF d = "RequestTimestamp" THEN [rq EXCEPT !.timestamp = now]
  ELSE rq

PreResponse(d, rs, id) ==
  IF d = "RequestID" THEN [rs EXCEPT !.id = id] ELSE rs

\* JSONResponse that serializes whatever the inner stage returned.
JSONResponseAlways(rs, err) == [rs EXCEPT !.payload = Marshal(rs)]

\* JSONResponse after the inner stage returned err.
JSONResponsePost(rs, err) ==
  IF err # NoText THEN rs ELSE [rs EXCEPT !.payload = Marshal(rs)]

\* ResponseTimestamp and JSONResponse after the inner stage returned err.
PostResponse(d, rs, err, now) ==
  IF d = "ResponseTimestamp" THEN [rs EXCEPT !.timestamp = now]
  ELSE IF d = "JSONResponse" THEN JSONResponsePost(rs, err)
  ELSE rs

\* ResponseTimestamp that returns nil whatever the inner stage returned.
DecoratorSwallowsError(d, err) == IF d = "ResponseTimestamp" THEN NoText ELSE err

\* What a decorator returns when the stage it called returned err.
DecoratorReturn(d, err) == err

\* A range loop that goes on after a middleware returned an error.
AfterStageContinues(err) == "loop"

\* ExecuteMiddlewares after a middleware returned err.
AfterStage(err) == IF err # NoText THEN "done" ELSE "loop"

\* A port with its middlewares added, and a fresh Request and Response.
PortInit ==
  /\ execCommand = NoText /\ maxParallel = 0
  /\ NoRequests
  /\ NoTokenizeCall
  /\ handlers \in Chains
  /\ middlewares \in Ports
  /\ Len(middlewares) <= 1 \/ handlers = TestChain
  /\ NoPortCall
  /\ NoWrapperCall

\* ExecuteMiddlewares is called.
ExecuteBegin ==
  /\ portPc = "idle"
  /\ portPc' = "loop"
  /\ stageIdx' = 1
  /\ UNCHANGED <<procVars, tokVars, wrapVars, handlers, middlewares, depth, portReq,
                 portResp, stageErr, portRet, clock, executed>>

\* The range loop calls the next middleware.
StageCall ==
  /\ portPc = "loop" /\ stageIdx <= Len(middlewares)
  /\ depth' = Outer(Wraps(stageIdx))
  /\ portPc' = "pre"
  /\ UNCHANGED <<procVars, tokVars, wrapVars, handlers, middlewares, stageIdx, portReq,
                 portResp, stageErr, portRet, clock, executed>>

\* A decorator runs up to its call of the stage it wraps.
DecoratorPre ==
  /\ portPc = "pre" /\ depth > 0
  /\ LET d == Wraps(stageIdx)[depth] IN
       /\ \E id \in Ids :
            /\ portReq' = PreRequest(d, portReq, id, clock)
            /\ portResp' = PreResponse(d, portResp, id)
       /\ executed' = Append(executed, <<stageIdx, d, "pre">>)
  /\ depth' = Inner(depth)
  /\ UNCHANGED <<procVars, tokVars, wrapVars, handlers, middlewares, portPc, stageIdx,
                 stageErr, portRet, clock>>

\* The innermost function of the stage runs: it takes some time, writes its
\* mark into the Response and returns nil or its error.
Terminal ==
  /\ portPc = "pre" /\ depth = 0
  /\ \E passed \in {0, 1} : clock' = clock + passed
  /\ portResp' = [portResp EXCEPT !.payload = @ \o Digits(stageIdx)]
  /\ stageErr' = IF middlewares[stageIdx].fails THEN ErrOf(stageIdx) ELSE NoText
  /\ executed' = Append(executed, <<stageIdx, "terminal", "run">>)
  /\ portPc' = "post"
  /\ depth' = 1
  /\ UNCHANGED <<procVars, tokVars, wrapVars, handlers, middlewares, stageIdx, portReq,
                 portRet>>

\* The stage a decorator called has returned: the decorator runs to its end.
DecoratorPost ==
  /\ portPc = "post" /\ depth <= Len(Wraps(stageIdx))
  /\ LET d == Wraps(stageIdx)[depth] IN
       /\ portResp' = PostResponse(d, portResp, stageErr, clock)
       /\ stageErr' = DecoratorReturn(d, stageErr)
       /\ executed' = Append(executed, <<stageIdx, d, "post">>)
  /\ depth' = depth + 1
  /\ UNCHANGED <<procVars, tokVars, wrapVars, handlers, middlewares, portPc, stageIdx,
                 portReq, portRet, clock>>

\* The middleware has returned to the range loop.
StageReturn ==
  /\ portPc = "post" /\ depth > Len(Wraps(stageIdx))
  /\ portPc' = AfterStage(stageErr)
  /\ portRet' = IF stageErr # NoText THEN ErrRet(stageErr) ELSE portRet
  /\ stageIdx' = IF portPc' = "loop" THEN stageIdx + 1 ELSE stageIdx
  /\ UNCHANGED <<procVars, tokVars, wrapVars, handlers, middlewares, depth, portReq,
                 portResp, stageErr, clock, executed>>

\* The range loop is over: ExecuteMiddlewares returns nil.
ExecuteReturn ==
  /\ portPc = "loop" /\ stageIdx > Len(middlewares)
  /\ portRet' = NilRet
  /\ portPc' = "done"
  /\ UNCHANGED <<procVars, tokVars, wrapVars, handlers, middlewares, stageIdx, depth,
                 portReq, portResp, stageErr, clock, executed>>

PortNext ==
  \/ ExecuteBegin
  \/ StageCall
  \/ DecoratorPre
  \/ Terminal
  \/ DecoratorPost
  \/ StageReturn
  \/ ExecuteReturn

PortSpec == PortInit /\ [][PortNext]_vars

\* ------------------------------------------------- the pipeline of main
\* The handlers main applies to the agent's middleware, in this order.
MainChain == <<"ResponseTimestamp", "JSONResponse", "RequestID", "RequestTimestamp">>

\* main: NewProcessAgent, worker = handler(worker) for each handler, and
\* AddMiddleware(worker); no request received yet.
MainInit ==
  /\ execCommand \in Templates
  /\ maxParallel \in 0..MaxBound
  /\ NoRequests
  /\ NoTokenizeCall
  /\ handlers = MainChain
  /\ middlewares = <<[decorated |-> TRUE, fails |-> FALSE]>>
  /\ NoPortCall
  /\ NoWrapperCall

\* The decorators have called the agent's middleware, which has not
\* returned yet.
WorkerCalled == portPc = "pre" /\ depth = 0

\* The steps of the ProcessCommand call the middleware makes (the call of
\* the one request in flight: it is never rejected).
WorkerStep ==
  \/ SetupError(1) \/ TokenPanic(1) \/ StartFail(1) \/ StartOk(1)
  \/ ProcExit(1) \/ OnStartLock(1) \/ OnStartInsert(1) \/ ExecWait(1)
  \/ ExecEndCheck(1) \/ ExecEndSet(1) \/ ExecEndLock(1) \/ ExecEndDelete(1)

\* What ProcessCommand wrote into the Response it was given.
WorkerResponse(rs, written) ==
  [rs EXCEPT !.payload = written.payload, !.error = written.error,
             !.errorCode = written.errorCode]

\* ProcessCommand has returned to the innermost decorator; after a panic in
\* runProcess it never returns and no decorator runs.
WorkerReturn ==
  /\ ~fatal /\ WorkerCalled /\ pc[1] = "done"
  /\ IF ret[1] = PanicRet
       THEN /\ portPc' = "panic"
            /\ UNCHANGED <<portResp, stageErr, executed, depth, clock>>
       ELSE /\ portResp' = WorkerResponse(portResp, resp[1])
            /\ stageErr' = IF ret[1].kind = "err" THEN ret[1].msg ELSE NoText
            /\ executed' = Append(executed, <<stageIdx, "terminal", "run">>)
            /\ \E passed \in {0, 1} : clock' = clock + passed
            /\ portPc' = "post"
            /\ depth' = 1
  /\ UNCHANGED <<procVars, tokVars, wrapVars, handlers, middlewares, stageIdx, portReq,
                 portRet>>

MainNext ==
  \/ ~fatal /\ ExecuteBegin
  \/ ~fatal /\ StageCall
  \/ ~fatal /\ DecoratorPre
  \/ WorkerCalled /\ WorkerStep
  \/ WorkerReturn
  \/ ~fatal /\ DecoratorPost
  \/ ~fatal /\ StageReturn
  \/ ~fatal /\ ExecuteReturn
  \/ StopBegin
  \/ StopStep

MainSpec == MainInit /\ [][MainNext]_vars

\* ------------------------------------------- a process wrapper on its own
\* exec and stopProcess called on one wrapper made by newProcessWrapper, by
\* tasks that run concurrently (TestProcessWrapperStopProcess); the
\* callbacks count their invocations (TestNewProcessWrapper).
ExecAlreadyStartedMsg ==
  <<"e", "x", "e", "c", ":", " ", "a", "l", "r", "e", "a", "d", "y", " ",
    "s", "t", "a", "r", "t", "e", "d">>

WrapInit ==
  /\ execCommand = NoText /\ maxParallel = 0
  /\ NoRequests
  /\ NoTokenizeCall
  /\ handlers = << >> /\ middlewares = << >>
  /\ NoPortCall
  /\ NoWrapperCall

\* Calls are numbered in the order they are made.
MayExec(c) ==
  /\ ~crashed /\ execCall[c].pc = "idle"
  /\ (IF c = 1 THEN TRUE ELSE execCall[c - 1].pc # "idle")

MayStop(s) ==
  /\ ~crashed /\ stopCall[s].pc = "idle"
  /\ (IF s = 1 THEN TRUE ELSE stopCall[s - 1].pc # "idle")

\* The guard of exec.
AlreadyRunning(wrapper) == wrapper.running

\* A refused exec that ran callEnd on its way out.
RefusedExecEnds(wrapper) == [wrapper EXCEPT !.running = FALSE]

\* The wrapper after a refused exec: exec returns before it assigns any
\* field and before it registers the deferred callEnd.
RefusedExec(wrapper) == wrapper

\* exec reads w.running: "already running", or it goes on.
WrapperExecGuard(c) ==
  /\ MayExec(c)
  /\ IF AlreadyRunning(pw)
       THEN /\ execCall' = [execCall EXCEPT ![c] =
                 [pc |-> "done", out |-> NoText, err |-> AlreadyRunningMsg]]
            /\ pw' = RefusedExec(pw)
       ELSE /\ execCall' = [execCall EXCEPT ![c].pc = "bind"]
            /\ UNCHANGED pw
  /\ UNCHANGED <<procVars, tokVars, portVars, pwProc, stopCall, fired, crashed>>

\* exec sets w.running, builds the command and binds its input and the
\* buffers of the wrapper to it.
WrapperExecBind(c) ==
  /\ ~crashed /\ execCall[c].pc = "bind"
  /\ pw' = [pw EXCEPT !.running = TRUE, !.cmd = c, !.stdin = c]
  /\ execCall' = [execCall EXCEPT ![c].pc = "start"]
  /\ UNCHANGED <<procVars, tokVars, portVars, pwProc, stopCall, fired, crashed>>

\* exec: w.cmd.Start(). It fails (the executable cannot be run, or another
\* exec call has started w.cmd already) and exec returns the error through
\* the deferred callEnd; or the process runs (whether this program may
\* signal it is for the system to say), the on-start callback is spawned
\* and exec goes on to wait.
WrapperExecStart(c) ==
  /\ ~crashed /\ execCall[c].pc = "start"
  /\ \/ /\ execCall' = [execCall EXCEPT ![c] =
             [pc |-> "endCheck", out |-> NoText,
              err |-> IF pwProc[pw.cmd].st = "none" THEN StartErrMsg
                      ELSE ExecAlreadyStartedMsg]]
        /\ UNCHANGED <<pwProc, fired>>
     \/ /\ pwProc[pw.cmd].st = "none"
        /\ \E d \in BOOLEAN :
             pwProc' = [pwProc EXCEPT ![pw.cmd] =
                          [NotStarted EXCEPT !.st = "alive", !.denied = d]]
        /\ fired' = [fired EXCEPT !.start = @ + 1]
        /\ execCall' = [execCall EXCEPT ![c].pc = "wait"]
  /\ UNCHANGED <<procVars, tokVars, portVars, pw, stopCall, crashed>>

\* What a process has written and how it exits (-1: killed by SIGTERM).
ChildBehaviours(signalled) ==
  { [out |-> <<"o">>, err |-> NoText, status |-> 0],
    [out |-> <<"o">>, err |-> <<"e">>, status |-> 1] }
  \cup (IF signalled THEN { [out |-> NoText, err |-> NoText, status |-> -1] }
        ELSE {})

\* The process of command k exits; what it wrote is in the buffers of the
\* wrapper.
ChildExit(k) ==
  /\ ~crashed /\ pwProc[k].st = "alive"
  /\ \E b \in ChildBehaviours(pwProc[k].signalled) :
       /\ pwProc' = [pwProc EXCEPT ![k].st = "exited", ![k].status = b.status]
       /\ pw' = [pw EXCEPT !.stdout = @ \o b.out, !.stderr = @ \o b.err]
  /\ UNCHANGED <<procVars, tokVars, portVars, execCall, stopCall, fired, crashed>>

\* exec: w.cmd.Wait() returns once the process has exited; it fails when
\* the exit status is not 0 or when the process has been waited for already.
WrapperExecWait(c) ==
  /\ ~crashed /\ execCall[c].pc = "wait"
  /\ pwProc[pw.cmd].st \in {"exited", "reaped"}
  /\ LET waitErr == IF pwProc[pw.cmd].st = "reaped" THEN WaitNoChildMsg
                    ELSE WaitError(pwProc[pw.cmd].status)
         result == ExecResult(waitErr, pw.stdout, pw.stderr)
     IN execCall' = [execCall EXCEPT ![c] =
                       [pc |-> "endCheck", out |-> result.out, err |-> result.err]]
  /\ pwProc' = [pwProc EXCEPT ![pw.cmd].st = "reaped"]
  /\ UNCHANGED <<procVars, tokVars, portVars, pw, stopCall, fired, crashed>>

\* callEnd's test of w.running.
CallEndUnguarded(wrapper) == TRUE

CallEndRuns(wrapper) == wrapper.running

\* exec's deferred callEnd reads w.running; when it is false exec returns.
WrapperExecEndCheck(c) ==
  /\ ~crashed /\ execCall[c].pc = "endCheck"
  /\ execCall' = [execCall EXCEPT ![c].pc =
                    IF CallEndRuns(pw) THEN "endSet" ELSE "done"]
  /\ UNCHANGED <<procVars, tokVars, portVars, pw, pwProc, stopCall, fired, crashed>>

\* callEnd: w.running = false and processEnds(w); exec returns.
WrapperExecEndSet(c) ==
  /\ ~crashed /\ execCall[c].pc = "endSet"
  /\ pw' = [pw EXCEPT !.running = FALSE]
  /\ fired' = [fired EXCEPT !.end = @ + 1]
  /\ execCall' = [execCall EXCEPT ![c].pc = "done"]
  /\ UNCHANGED <<procVars, tokVars, portVars, pwProc, stopCall, crashed>>

\* stopProcess reads w.running: when false it returns nil (then the
\* deferred callEnd runs).
WrapperStopCheck(s) ==
  /\ MayStop(s)
  /\ stopCall' = [stopCall EXCEPT ![s] =
       IF pw.running THEN [@ EXCEPT !.pc = "signal", !.found = TRUE]
       ELSE [@ EXCEPT !.pc = "endCheck", !.ret = "nil"]]
  /\ UNCHANGED <<procVars, tokVars, portVars, pw, pwProc, execCall, fired, crashed>>

\* Process.Signal fails when the process was already waited for, or when
\* the system refuses the signal.
SignalRefused(p) == SignalFails(p) \/ p.denied

\* stopProcess: w.cmd.Process.Signal(SIGTERM). w.cmd.Process is nil until
\* cmd.Start has succeeded: the call panics. On an error stopProcess
\* returns nil without waiting (then the deferred callEnd runs).
WrapperStopSignal(s) ==
  /\ ~crashed /\ stopCall[s].pc = "signal"
  /\ IF pwProc[pw.cmd].st = "none"
       THEN /\ crashed' = TRUE
            /\ UNCHANGED <<stopCall, pwProc>>
       ELSE /\ IF SignalRefused(pwProc[pw.cmd])
                 THEN /\ stopCall' = [stopCall EXCEPT ![s] =
                           [@ EXCEPT !.pc = "endCheck", !.ret = "nil",
                                     !.target = pw.cmd]]
                      /\ UNCHANGED pwProc
                 ELSE /\ stopCall' = [stopCall EXCEPT ![s] =
                           [@ EXCEPT !.pc = "wait", !.target = pw.cmd]]
                      /\ pwProc' = [pwProc EXCEPT ![pw.cmd].signalled = TRUE]
            /\ UNCHANGED crashed
  /\ UNCHANGED <<procVars, tokVars, portVars, pw, execCall, fired>>

\* stopProcess: w.cmd.Process.Wait() returns once the process has exited;
\* it fails when the process has been waited for already, and stopProcess
\* returns that error.
WrapperStopWait(s) ==
  /\ ~crashed /\ stopCall[s].pc = "wait"
  /\ IF pwProc[pw.cmd].st = "none"
       THEN /\ crashed' = TRUE
            /\ UNCHANGED <<stopCall, pwProc>>
       ELSE /\ pwProc[pw.cmd].st \in {"exited", "reaped"}
            /\ stopCall' = [stopCall EXCEPT ![s] =
                 [@ EXCEPT !.pc = "endCheck", !.target = pw.cmd,
                           !.ret = IF pwProc[pw.cmd].st = "reaped" THEN "err"
                                   ELSE "nil"]]
            /\ pwProc' = [pwProc EXCEPT ![pw.cmd].st = "reaped"]
            /\ UNCHANGED crashed
  /\ UNCHANGED <<procVars, tokVars, portVars, pw, execCall, fired>>

\* stopProcess's deferred callEnd reads w.running; when it is false
\* stopProcess returns.
WrapperStopEndCheck(s) ==
  /\ ~crashed /\ stopCall[s].pc = "endCheck"
  /\ stopCall' = [stopCall EXCEPT ![s].pc =
                    IF CallEndRuns(pw) THEN "endSet" ELSE "done"]
  /\ UNCHANGED <<procVars, tokVars, portVars, pw, pwProc, execCall, fired, crashed>>

\* callEnd: w.running = false and processEnds(w); stopProcess returns.
WrapperStopEndSet(s) ==
  /\ ~crashed /\ stopCall[s].pc = "endSet"
  /\ pw' = [pw EXCEPT !.running = FALSE]
  /\ fired' = [fired EXCEPT !.end = @ + 1]
  /\ stopCall' = [stopCall EXCEPT ![s] = [@ EXCEPT !.pc = "done", !.ended = TRUE]]
  /\ UNCHANGED <<procVars, tokVars, portVars, pwProc, execCall, crashed>>

WrapNext ==
  \/ \E c \in Calls :
       \/ WrapperExecGuard(c) \/ WrapperExecBind(c) \/ WrapperExecStart(c)
       \/ WrapperExecWait(c) \/ WrapperExecEndCheck(c) \/ WrapperExecEndSet(c)
  \/ \E k \in Calls : ChildExit(k)
  \/ \E s \in Stops :
       \/ WrapperStopCheck(s) \/ WrapperStopSignal(s) \/ WrapperStopWait(s)
       \/ WrapperStopEndCheck(s) \/ WrapperStopEndSet(s)

WrapSpec == WrapInit /\ [][WrapNext]_vars


\* ================================================================== claims
InFlight == {r \in Reqs : path[r] = "ran" /\ proc[r].st = "alive"}

VisitedSet == {stopVisited[i] : i \in 1..Len(stopVisited)}

\* The on-end callback of wrapper r is being executed (by exec or by Stop).
OnEndInProgress(r) ==
  \/ pc[r] \in {"endLock", "endDel"}
  \/ stopCur = r /\ stopPc \in {"endLock", "endDel"}

\* The on-end callback of wrapper r was invoked and has returned.
OnEndCompleted(r) == ends[r] > 0 /\ ~OnEndInProgress(r)

\* No ProcessCommand call is in flight and every callback has run.
Quiescent ==
  /\ \A r \in Reqs : pc[r] \in {"idle", "done"} /\ start[r] \in {"none", "done"}
  /\ stopPc \in {"idle", "loop", "done"}

\* The message of the setup error runProcess returns for the template.
SetupMsg == IF TrimSpace(execCommand) = << >> THEN NoExecMsg ELSE UnclosedMsg

\* C1: with a nonzero bound N the registry never holds more than N entries.
C1_RegistryWithinBound ==
  maxParallel # 0 => Cardinality(running) <= maxParallel

\* C2: with a bound N > 0, a ProcessCommand call made while N admitted
\* requests are in flight (process started, not yet exited) is rejected.
C2_RejectedWhenPoolFull ==
  [][\A r \in Reqs :
       (pc[r] = "idle" /\ pc'[r] # "idle" /\ maxParallel # 0
          /\ Cardinality(InFlight) >= maxParallel)
       => (ret'[r] = ErrRet(MaxWorkersMsg) /\ proc'[r].st = "none")]_vars

\* C3: with a bound N > 0, once every call has returned and every on-start
\* and on-end callback has run, the next call is not rejected by admission.
C3_SlotsFreedWhenQuiescent == Quiescent => ~AtCapacity

\* C4: every registry entry refers to a wrapper whose process has started
\* and whose on-end callback has not yet run to completion.
C4_EntriesAreLive ==
  \A r \in running : w[r].started /\ ~OnEndCompleted(r)

\* C5: when the process of an admitted request fails, ProcessCommand returns
\* nil and the Response has the error flag, code 500 and the failure text
\* (the errStr exec returned) as its payload.
C5_FailureEncoded ==
  \A r \in Reqs :
    (pc[r] = "done" /\ path[r] \in {"startfail", "ran"} /\ res[r].err # NoText)
    => /\ ret[r] = NilRet
       /\ resp[r] = [payload |-> res[r].err, error |-> "true", errorCode |-> 500]

C8_StopTerminatesAll ==
  stopPc = "done" => \A r \in stopAlive : proc[r].st # "alive"

\* C9: every step of Stop that reads the live registry (a step of its range
\* loop) is taken with the registry lock held by Stop.
C9_StopReadsUnderLock ==
  [][(stopPc = "loop" /\ stopPc' # "loop") => lock = <<"stop", 0>>]_vars

\* C10: Stop returns nil, and by then has attempted stopProcess on every
\* entry that stayed in the registry during the loop, whether or not an
\* earlier stopProcess failed.
C10_StopAttemptsAll ==
  stopPc = "done" => stopRet = "nil" /\ (stopStartKeys \cap running) \subseteq VisitedSet

\* Reached: Stop returned after a stopProcess failed and a later entry was
\* attempted.
C10_Witness ==
  /\ stopPc = "done"
  /\ \E i \in 1..Len(stopVisited) :
       stopVisited[i] \in stopFailed /\ i < Len(stopVisited)

\* C11: once Stop has been called it eventually returns, whatever the other
\* tasks do, given that every task keeps being scheduled and every process
\* exits.
C11_StopReturns == (stopPc # "idle") ~> (stopPc = "done")

\* The process of call r copied its input to its standard output, wrote
\* nothing to its standard error and exited with status 0.
EchoedAndSucceeded(r) ==
  /\ path[r] = "ran" /\ proc[r].st \in {"exited", "reaped"}
  /\ proc[r].out = req[r] /\ proc[r].err = NoText /\ proc[r].status = 0

\* C12: a call whose process echoed its input and exited successfully
\* returns nil, and its Response carries the request payload and no error.
C12_RoundTrip ==
  \A r \in Reqs :
    (pc[r] = "done" /\ EchoedAndSucceeded(r)) =>
      /\ ret[r] = NilRet
      /\ resp[r].payload = req[r]
      /\ resp[r].error = "nil" /\ resp[r].errorCode = 0

\* C20: an agent built with the bound 0 never rejects a call, whatever the
\* number of requests in flight and of registered processes.
C20_BoundZeroNeverRejects ==
  maxParallel = 0 =>
    \A r \in Reqs : path[r] # "rejected" /\ ret[r] # ErrRet(MaxWorkersMsg)

\* Bound 0, every call admitted and in flight, every process registered.
C20_Witness ==
  /\ maxParallel = 0 /\ running = Reqs
  /\ \A r \in Reqs : path[r] = "ran" /\ pc[r] = "wait" /\ proc[r].st = "alive"

\* ------------------------------------------------- claims about Tokenize
\* The characters the specification calls whitespace, quotes and escapable.
WhitespaceChars == {" ", "\t", "\n", "\r"}
QuoteChars == {"\"", "'"}
Escapable == QuoteChars \cup {"\\"}

\* The number of quote characters of str from index i on that open or
\* close a group: those that no backslash escapes.
RECURSIVE Toggles(_, _)
Toggles(str, i) ==
  IF i > Len(str) THEN 0
  ELSE IF str[i] = "\\"
    THEN IF i < Len(str) /\ str[i + 1] \in Escapable
           THEN Toggles(str, i + 2) ELSE Toggles(str, i + 1)
  ELSE IF str[i] \in QuoteChars THEN 1 + Toggles(str, i + 1)
  ELSE Toggles(str, i + 1)

\* The end of str is inside a quoted region.
EndsInsideGroup(str) == Toggles(str, 1) % 2 = 1

\* C17: Tokenize fails with "unclosed string group", and returns no token,
\* on every input whose end is inside a quoted region, also when nothing
\* follows the opening quote.
C17_UnclosedGroupFails ==
  (tokRes.called /\ EndsInsideGroup(tokStr)) =>
    (tokRes.err /\ tokRes.tokens = << >>)

NoBackslash(str) == \A i \in 1..Len(str) : str[i] # "\\"

\* In a text without backslashes: the number of quotes before index i.
QuotesBefore(str, i) == Cardinality({j \in 1..(i - 1) : str[j] \in QuoteChars})

UnquotedWhitespace(str, i) ==
  str[i] \in WhitespaceChars /\ QuotesBefore(str, i) % 2 = 0

ClosingQuote(str, i) ==
  str[i] \in QuoteChars /\ QuotesBefore(str, i) % 2 = 1

\* The characters of str[lo..hi] without the quotes.
Content(str, lo, hi) ==
  SelectSeq(SubSeq(str, lo, hi), LAMBDA c : c \notin QuoteChars)

HasQuote(str, lo, hi) == \E i \in lo..hi : str[i] \in QuoteChars

Least(S) == CHOOSE x \in S : \A y \in S : x <= y

\* Splitting on unquoted whitespace only: a token is a maximal stretch
\* without unquoted whitespace, its quotes stripped.
RECURSIVE SplitOnWhitespace(_, _)
SplitOnWhitespace(str, lo) ==
  LET bs == {i \in lo..Len(str) : UnquotedWhitespace(str, i)}
      hi == IF bs = {} THEN Len(str) ELSE Least(bs) - 1
      tk == IF lo <= hi /\ (Content(str, lo, hi) # << >> \/ HasQuote(str, lo, hi))
              THEN <<Content(str, lo, hi)>> ELSE << >>
  IN IF bs = {} THEN tk ELSE tk \o SplitOnWhitespace(str, hi + 2)

RECURSIVE SplitOnWhitespaceAndClosingQuotes(_, _)
SplitOnWhitespaceAndClosingQuotes(str, lo) ==
  LET bs == {i \in lo..Len(str) :
               UnquotedWhitespace(str, i) \/ ClosingQuote(str, i)}
      hi == IF bs = {} THEN Len(str) ELSE Least(bs) - 1
      closed == bs # {} /\ str[hi + 1] \in QuoteChars
      tk == IF closed \/ Content(str, lo, hi) # << >>
              THEN <<Content(str, lo, hi)>> ELSE << >>
  IN IF bs = {} THEN tk ELSE tk \o SplitOnWhitespaceAndClosingQuotes(str, hi + 2)

RECURSIVE Kept(_, _, _)
Kept(str, i, inGroup) ==
  IF i > Len(str) THEN << >>
  ELSE IF str[i] = "\\"
    THEN IF i < Len(str) /\ str[i + 1] \in Escapable
           THEN <<str[i + 1]>> \o Kept(str, i + 2, inGroup)
           ELSE <<str[i]>> \o Kept(str, i + 1, inGroup)
  ELSE IF str[i] \in QuoteChars THEN Kept(str, i + 1, ~inGroup)
  ELSE IF str[i] \in WhitespaceChars /\ ~inGroup THEN Kept(str, i + 1, inGroup)
  ELSE <<str[i]>> \o Kept(str, i + 1, inGroup)

RECURSIVE Flatten(_)
Flatten(tokens) ==
  IF tokens = << >> THEN << >> ELSE Head(tokens) \o Flatten(Tail(tokens))

\* C19: when Tokenize succeeds its tokens hold, in order, every character
\* the specification keeps: an escaped backslash or quote is inserted
\* literally and toggles no group, every other backslash is passed through,
\* the last character of the input included.
C19_BackslashPassedThrough ==
  (tokRes.called /\ ~tokRes.err) =>
    Flatten(tokRes.tokens) = Kept(tokStr, 1, FALSE)

\* ------------------------------------------------- claims about the port
IsPrefix(a, b) == Len(a) <= Len(b) /\ a = SubSeq(b, 1, Len(a))

\* What ran in stage i, in order.
StageLog(i) == SelectSeq(executed, LAMBDA e : e[1] = i)

\* Decorators hs = d1..dn around stage i: dn .. d1 up to their inward call,
\* the innermost function, then d1 .. dn after their inward call.
Expected(i, hs) ==
  LET n == Len(hs) IN
  [j \in 1..(2 * n + 1) |->
     IF j <= n THEN <<i, hs[n + 1 - j], "pre">>
     ELSE IF j = n + 1 THEN <<i, "terminal", "run">>
     ELSE <<i, hs[j - n - 1], "post">>]

TerminalRan(i) == \E j \in 1..Len(executed) : executed[j] = <<i, "terminal", "run">>

\* Middleware i has returned to ExecuteMiddlewares.
StageOver(i) ==
  \/ stageIdx > i
  \/ stageIdx = i /\ portPc = "done"
  \/ stageIdx = i /\ portPc = "post" /\ depth > Len(Wraps(i))

Applied(d) == \E k \in 1..Len(handlers) : handlers[k] = d

FirstDecorated == Len(middlewares) >= 1 /\ middlewares[1].decorated /\ stageIdx <= 1

\* C13: around every stage the decorators run in the order dn .. d1 before
\* the innermost function and d1 .. dn after it; what RequestID and
\* RequestTimestamp set is set before the innermost function runs, what
\* ResponseTimestamp and JSONResponse set is set after it; with
\* [RequestID, RequestTimestamp] the timestamp is set before the ids.
C13_DecoratorOrder ==
  /\ \A i \in 1..Len(middlewares) :
       /\ IsPrefix(StageLog(i), Expected(i, Wraps(i)))
       /\ StageOver(i) => StageLog(i) = Expected(i, Wraps(i))
  /\ (FirstDecorated /\ TerminalRan(1)) =>
       /\ Applied("RequestID") => (portReq.id # NoText /\ portResp.id = portReq.id)
       /\ Applied("RequestTimestamp") => portReq.timestamp # 0
  /\ (FirstDecorated /\ ~TerminalRan(1)) =>
       (portResp.timestamp = 0 /\ portResp.payload = NoText)
  /\ (FirstDecorated /\ handlers = <<"RequestID", "RequestTimestamp">>) =>
       (portReq.id # NoText => portReq.timestamp # 0)

\* [RequestID, RequestTimestamp] around a stage that has run to its end.
C13_Witness ==
  /\ handlers = <<"RequestID", "RequestTimestamp">>
  /\ middlewares = <<[decorated |-> TRUE, fails |-> FALSE]>>
  /\ portPc = "done"
  /\ executed = Expected(1, handlers)
  /\ portReq.id # NoText /\ portReq.timestamp # 0

IsInfix(sub, text) ==
  \E k \in 0..(Len(text) - Len(sub)) : SubSeq(text, k + 1, k + Len(sub)) = sub

\* JSONResponse is about to run its part after the inward call.
AtJSONResponse ==
  /\ portPc = "post"
  /\ IF stageIdx \in 1..Len(middlewares)
       THEN IF depth \in 1..Len(Wraps(stageIdx))
              THEN Wraps(stageIdx)[depth] = "JSONResponse" ELSE FALSE
       ELSE FALSE

\* C14: JSONResponse replaces the payload by the serialization of the whole
\* Response (its id, the payload of the inner stage, its timestamp) when the
\* inner stage returned nil; when it returned an error JSONResponse returns
\* that error and leaves the Response as it is.
C14_JSONResponseOnlyOnSuccess ==
  [][(AtJSONResponse /\ depth' = depth + 1) =>
       IF stageErr = NoText
         THEN /\ stageErr' = NoText
              /\ portResp'.payload = Marshal(portResp)
              /\ IsInfix(<<"\"", "i", "d", "\"", ":", "\"">> \o portResp.id \o <<"\"">>, portResp'.payload)
              /\ IsInfix(<<"\"", "p", "a", "y", "l", "o", "a", "d", "\"", ":", "\"">> \o JSONEscape(portResp.payload) \o <<"\"">>,
                         portResp'.payload)
              /\ IsInfix(<<"\"", "t", "i", "m", "e", "s", "t", "a", "m", "p", "\"", ":">> \o Digits(portResp.timestamp), portResp'.payload)
              /\ [portResp' EXCEPT !.payload = portResp.payload] = portResp
         ELSE stageErr' = stageErr /\ portResp' = portResp]_vars

\* JSONResponse has just returned the error of the inner stage, the payload
\* still what the inner stage wrote.
C14_Witness ==
  /\ portPc = "post" /\ stageIdx = 1 /\ stageErr = ErrOf(1)
  /\ IF Len(middlewares) = 1 /\ depth >= 2 /\ depth - 1 <= Len(handlers)
       THEN middlewares[1].decorated /\ handlers[depth - 1] = "JSONResponse"
       ELSE FALSE
  /\ portResp.payload = Digits(1)

\* C15: once ResponseTimestamp has returned, the Response carries the time
\* read after the inner stage returned, error or not, and the error is the
\* inner stage's; the error of a stage wrapped as in the port's test is what
\* ExecuteMiddlewares returns.
C15_ResponseTimestampAlwaysStamps ==
  /\ \A i \in 1..Len(middlewares) :
       \A k \in 1..Len(Wraps(i)) :
         (Wraps(i)[k] = "ResponseTimestamp" /\ stageIdx = i /\ portPc = "post"
            /\ depth > k) =>
           /\ portResp.timestamp = clock
           /\ stageErr = IF middlewares[i].fails THEN ErrOf(i) ELSE NoText
  /\ (FirstDecorated /\ ~TerminalRan(1)) => portResp.timestamp = 0
  /\ (portPc = "done" /\ handlers = TestChain /\ FirstDecorated
        /\ middlewares[1].fails) =>
       (portRet = ErrRet(ErrOf(1)) /\ portResp.timestamp # 0)

\* ResponseTimestamp(RequestTimestamp(failing stage)) run through the port.
C15_Witness ==
  /\ portPc = "done" /\ handlers = TestChain
  /\ middlewares = <<[decorated |-> TRUE, fails |-> TRUE]>>
  /\ portRet = ErrRet(ErrOf(1))
  /\ portResp.timestamp = clock /\ portReq.timestamp # 0

\* The stages whose innermost function ran, in order.
TerminalRuns == SelectSeq(executed, LAMBDA e : e[2] = "terminal")

Failing == {i \in 1..Len(middlewares) : middlewares[i].fails}

\* The last stage that is to run: the first that fails, if any.
LastToRun == IF Failing = {} THEN Len(middlewares) ELSE Least(Failing)

RECURSIVE MarksUpTo(_)
MarksUpTo(m) == IF m = 0 THEN << >> ELSE MarksUpTo(m - 1) \o Digits(m)

\* C16: the stages run in registration order, each once, up to the first
\* that fails; ExecuteMiddlewares returns that stage's error, or nil when
\* none fails; what the stages wrote is in the Response.
C16_ChainStopsAtFirstError ==
  /\ Len(TerminalRuns) <= LastToRun
  /\ \A j \in 1..Len(TerminalRuns) : TerminalRuns[j][1] = j
  /\ (\A i \in 1..Len(middlewares) : ~middlewares[i].decorated) =>
       portResp.payload = MarksUpTo(Len(TerminalRuns))
  /\ portPc = "done" =>
       /\ Len(TerminalRuns) = LastToRun
       /\ portRet = IF Failing = {} THEN NilRet ELSE ErrRet(ErrOf(LastToRun))
  /\ portPc # "done" => portRet = NoRet

\* Three stages, the second fails: the first two ran, the third did not.
C16_Witness ==
  /\ portPc = "done"
  /\ middlewares = <<[decorated |-> FALSE, fails |-> FALSE],
                     [decorated |-> FALSE, fails |-> TRUE],
                     [decorated |-> FALSE, fails |-> FALSE]>>
  /\ portRet = ErrRet(ErrOf(2))
  /\ portResp.payload = <<"1", "2">>

\* ------------------------------------------------- claims about main
\* The index in what ran of the entry e (0: it did not run).
RanAt(e) ==
  IF \E j \in 1..Len(executed) : executed[j] = e
    THEN CHOOSE j \in 1..Len(executed) : executed[j] = e ELSE 0

\* What the process of call r gave: its output, or the text of its failure.
Outcome(r) ==
  IF path[r] = "setup" THEN SetupMsg
  ELSE IF path[r] = "startfail" THEN StartErrMsg
  ELSE IF res[r].err # NoText THEN res[r].err
  ELSE res[r].out

Failed(r) == path[r] \in {"setup", "startfail"} \/ res[r].err # NoText

\* C21: in the pipeline of main every admitted request is served a JSON
\* object made after the process has finished, after the response
\* timestamp and after the ids were set: it carries the id, the output of
\* the process (or the failure text, the error flag and the code) and the
\* response timestamp.
C21_MainSerializesLast ==
  /\ portPc # "panic"
  /\ RanAt(<<1, "JSONResponse", "post">>) # 0 =>
       /\ RanAt(<<1, "terminal", "run">>) \in 1..(RanAt(<<1, "JSONResponse", "post">>) - 1)
       /\ RanAt(<<1, "ResponseTimestamp", "post">>)
            \in 1..(RanAt(<<1, "JSONResponse", "post">>) - 1)
       /\ RanAt(<<1, "RequestID", "pre">>)
            \in 1..(RanAt(<<1, "JSONResponse", "post">>) - 1)
  /\ portPc = "done" =>
       /\ portRet = NilRet
       /\ portReq.id # NoText /\ portResp.id = portReq.id
       /\ portResp.timestamp # 0
       /\ portResp.payload =
            Marshal([id |-> portReq.id, payload |-> Outcome(1),
                     timestamp |-> portResp.timestamp,
                     error |-> IF Failed(1) THEN "true" ELSE "nil",
                     errorCode |-> IF Failed(1) THEN 500 ELSE 0])

\* ------------------------------------ claims about the process wrapper
\* C22: the on-end callback of a wrapper is invoked exactly once on every
\* exit path of exec (start failure, wait error, stderr output, success),
\* whatever a concurrent stop does: never twice, and once exec has returned
\* never zero times.
C22_OnEndExactlyOnce ==
  \A r \in Reqs :
    /\ ends[r] <= 1
    /\ (pc[r] = "done" /\ path[r] \in {"startfail", "ran"}) => ends[r] = 1

\* How many invocations of the on-end callback of wrapper r have returned.
OnEndReturns(r) ==
  ends[r] - (IF pc[r] \in {"endLock", "endDel"} THEN 1 ELSE 0)
          - (IF stopCur = r /\ stopPc \in {"endLock", "endDel"} THEN 1 ELSE 0)

\* C24: when an exec call that passed the already-running guard has
\* returned, an invocation of the on-end callback has run to its end, also
\* when a stop runs concurrently.
C24_OnEndBeforeExecReturns ==
  \A r \in Reqs :
    (pc[r] = "done" /\ path[r] \in {"startfail", "ran"}) => OnEndReturns(r) >= 1

\* C25: when the process wrote anything to its standard error, exec
\* returns an empty output and, as its error, exactly that text, whatever
\* the exit status of the process.
C25_StderrIsTheError ==
  \A r \in Reqs :
    (pc[r] = "done" /\ path[r] = "ran" /\ proc[r].err # NoText)
      => res[r] = [out |-> NoText, err |-> proc[r].err]

\* ------------------------------------------- claims about the admission
\* C27: a rejected ProcessCommand call has no side effect and never
\* blocks: it returns the error in the step that reads the registry,
\* whoever holds the lock, and leaves the lock, the registry, the
\* wrappers, the processes, the callbacks and the Response as they were.
C27_RejectionHasNoEffect ==
  [][\A r \in Reqs :
       (path[r] = "none" /\ path'[r] = "rejected") =>
         /\ pc'[r] = "done" /\ ret'[r] = ErrRet(MaxWorkersMsg)
         /\ UNCHANGED <<running, lock, resp, w, proc, res, start, ends>>]_vars

\* A call was rejected while another task holds the lock (the on-end
\* callback of the first request, about to delete its entry).
C27_Witness ==
  /\ path[2] = "rejected" /\ resp[2] = EmptyResponse
  /\ lock = <<"end", 1>> /\ 1 \in running

\* ------------------------------------------ claims about the template
\* C30: for every command template that is not empty after trimming and
\* that Tokenize accepts, the token list has at least one element, so that
\* runProcess never takes the first element of an empty token list.
C30_TemplateHasExecutable ==
  LET trimmed == TrimSpace(execCommand) IN
    \A r \in Reqs :
      (/\ pc[r] = "done" /\ path[r] # "rejected"
       /\ trimmed # << >> /\ ~Tokenize(trimmed).err)
        => /\ Len(Tokenize(trimmed).tokens) >= 1
           /\ ret[r] # PanicRet

\* --------------------------------- claims about a wrapper on its own
\* The commands of the wrapper whose process was started.
Started == {k \in Calls : pwProc[k].st # "none"}

\* C23: a wrapper executes at most one process over its lifetime: an exec
\* call on a wrapper that has already run a process, running or
\* terminated, never starts a second one.
C23_AtMostOneProcess == Cardinality(Started) <= 1

\* C26: an exec call that finds the wrapper running returns "already
\* running" in that step and leaves the wrapper as it is: the running
\* flag, the command, the input binding and the buffers are not modified,
\* no process is started and no callback is invoked.
C26_RefusedExecChangesNothing ==
  [][\A c \in Calls :
       (execCall[c].pc = "idle" /\ execCall'[c].pc # "idle" /\ pw.running) =>
         /\ execCall'[c] = [pc |-> "done", out |-> NoText, err |-> AlreadyRunningMsg]
         /\ UNCHANGED <<pw, pwProc, fired>>]_vars

\* The second exec call was refused while the process of the first is
\* alive; the wrapper is still running and on-end was not invoked.
C26_Witness ==
  /\ execCall[2] = [pc |-> "done", out |-> NoText, err |-> AlreadyRunningMsg]
  /\ pwProc[1].st = "alive" /\ pwProc[2].st = "none"
  /\ pw.running /\ pw.cmd = 1 /\ pw.stdin = 1
  /\ fired = [start |-> 1, end |-> 0]

C29_StopWaitsForExit ==
  \A s \in Stops :
    (/\ stopCall[s].found /\ stopCall[s].target # 0
     /\ stopCall[s].ret = "nil" \/ stopCall[s].ended)
      => pwProc[stopCall[s].target].st # "alive"

====
